---- MODULE Spec2Model ----
(***************************************************************************)
(* Model of the ffmpeg-tools MCP server (src/ffmpeg_mcp/mcp.py) and of the *)
(* client that decodes its image results (src/client/test.py).             *)
(*                                                                         *)
(* Text is a sequence of string tokens, raw process output a sequence of   *)
(* byte values, an argument vector a sequence of strings.                  *)
(***************************************************************************)
EXTENDS Integers, Sequences, FiniteSets, TLC

VARIABLES
    pc,            \* "idle": the session waits for a request; "running": one is being served
    alive,         \* the server process is up
    request,       \* the tool call being served, or served last
    env,           \* what the process of that call did
    responses,     \* the responses sent for that call
    invoked,       \* the handlers invoked during that call
    runCalls,      \* the argument vectors given to subprocess.run during that call
    procs,         \* the processes that started during that call
    fsOps,         \* the filesystem calls made during that call
    failedBefore,  \* some earlier call of the session got an error result
    callerOrig,    \* an in-process caller's list, as the caller built it
    callerArgs,    \* the same list object, now
    directCalls,   \* the in-process calls made with that list: tool and process argv
    directResult   \* what the last in-process call returned

sessionVars == <<pc, alive, request, env, responses, invoked, runCalls, procs,
                 fsOps, failedBefore>>
callerVars == <<callerOrig, callerArgs, directCalls, directResult>>
vars == <<sessionVars, callerVars>>

(***************************************************************************)
(* Bounds of the model.                                                    *)
(***************************************************************************)
\* longest captured stdout of a process, in bytes
MaxOut == 2
\* longest captured stderr of a process, in bytes
MaxErr == 1
\* number of in-process calls the direct caller makes on one list
MaxDirectCalls == 2

(***************************************************************************)
(* Input domains.                                                          *)
(***************************************************************************)
\* carriage return, 'A', and 0xFF (never valid in UTF-8)
Byte == {13, 65, 255}

RECURSIVE SeqsUpTo(_, _)
SeqsUpTo(S, n) ==
    IF n = 0 THEN {<<>>}
    ELSE LET shorter == SeqsUpTo(S, n - 1)
         IN  shorter \cup {Append(s, x) : s \in {t \in shorter : Len(t) = n - 1}, x \in S}

StdoutBytes == SeqsUpTo(Byte, MaxOut)
StderrBytes == SeqsUpTo(Byte, MaxErr)

ExitCodes == {0, 1}

ArgLists == { <<>>, <<"ffmpeg", "-i", "in.mp4", "out.mp4">> }

PathArgs == { <<>>, <<"/lib">>, <<"/lib", "/a.c">>, <<"/lib", "/locked.c">>,
              <<"/private">>, <<"/nope">>, <<"/toolong">> }

MediaFiles == {"in.mp4"}
Timestamps == {"00:00:20"}

UnregisteredNames == {"read_source_file"}

(***************************************************************************)
(* The external process, as the environment decides it: either the spawn   *)
(* fails with an OS error, or the process runs and ends with an exit code, *)
(* and raw stdout and stderr.                                              *)
(***************************************************************************)
SpawnErrors == { <<"[Errno 2] No such file or directory">>,
                 <<"[Errno 13] Permission denied">> }

NoEnv == [spawned |-> FALSE, spawnError |-> <<>>, returncode |-> 0,
          stdout |-> <<>>, stderr |-> <<>>]

Envs ==
    { [NoEnv EXCEPT !.spawnError = m] : m \in SpawnErrors }
    \cup { [spawned |-> TRUE, spawnError |-> <<>>, returncode |-> c,
            stdout |-> o, stderr |-> s] :
           c \in ExitCodes, o \in StdoutBytes, s \in StderrBytes }

(***************************************************************************)
(* Text helpers.                                                           *)
(***************************************************************************)
Contains(s, sub) ==
    \E i \in 1..(Len(s) + 1) :
        /\ i + Len(sub) - 1 <= Len(s)
        /\ SubSeq(s, i, i + Len(sub) - 1) = sub

\* the character a byte stands for (ASCII)
CharOf(b) == CASE b = 10 -> "\n" [] b = 13 -> "\r" [] b = 65 -> "A" [] OTHER -> "?"

CharsOf(bytes) == [i \in 1..Len(bytes) |-> CharOf(bytes[i])]

RECURSIVE TranslateNewlines(_)
TranslateNewlines(t) ==
    IF t = <<>> THEN <<>>
    ELSE IF Head(t) = "\r" /\ Len(t) >= 2 /\ t[2] = "\n"
         THEN <<"\n">> \o TranslateNewlines(Tail(Tail(t)))
    ELSE IF Head(t) = "\r" THEN <<"\n">> \o TranslateNewlines(Tail(t))
    ELSE <<Head(t)>> \o TranslateNewlines(Tail(t))

\* subprocess.run(text=True): strict UTF-8 decoding of a captured stream
Decodable(bytes) == \A i \in 1..Len(bytes) : bytes[i] < 128

Decode(bytes) == TranslateNewlines(CharsOf(bytes))

\* how an f-string shows a bytes object: b'...'
ReprByte(b) == CASE b = 10 -> "\\n" [] b = 13 -> "\\r" [] b = 65 -> "A" [] OTHER -> "\\xff"

ReprBytes(bytes) == <<"b'">> \o [i \in 1..Len(bytes) |-> ReprByte(bytes[i])] \o <<"'">>

(***************************************************************************)
(* Base64: the transport encoding of an image payload.  A character of the *)
(* alphabet is its index 0..63; 64 is the padding character '='.           *)
(***************************************************************************)
RECURSIVE b64encode(_)
b64encode(b) ==
    IF Len(b) = 0 THEN <<>>
    ELSE IF Len(b) = 1 THEN << b[1] \div 4, (b[1] % 4) * 16, 64, 64 >>
    ELSE IF Len(b) = 2
         THEN << b[1] \div 4, (b[1] % 4) * 16 + b[2] \div 16, (b[2] % 16) * 4, 64 >>
    ELSE << b[1] \div 4, (b[1] % 4) * 16 + b[2] \div 16,
            (b[2] % 16) * 4 + b[3] \div 64, b[3] % 64 >>
         \o b64encode(SubSeq(b, 4, Len(b)))

RECURSIVE b64decode(_)
b64decode(s) ==
    IF Len(s) < 4 THEN <<>>
    ELSE IF s[3] = 64 THEN << s[1] * 4 + s[2] \div 16 >>
    ELSE IF s[4] = 64
         THEN << s[1] * 4 + s[2] \div 16, (s[2] % 16) * 16 + s[3] \div 4 >>
    ELSE << s[1] * 4 + s[2] \div 16, (s[2] % 16) * 16 + s[3] \div 4,
            (s[3] % 4) * 64 + s[4] >>
         \o b64decode(SubSeq(s, 5, Len(s)))

(***************************************************************************)
(* The source tree on disk.                                                *)
(***************************************************************************)
ffmpeg_src_root == <<"/srv/ffmpeg-tools", "/ffmpeg_src/">>

\* what the operating system holds at a full path
FsKind(full_path) ==
    CASE full_path = ffmpeg_src_root \o <<"/lib">>               -> "dir"
      [] full_path = ffmpeg_src_root \o <<"/lib", "/a.c">>       -> "file"
      [] full_path = ffmpeg_src_root \o <<"/lib", "/locked.c">>  -> "unreadable_file"
      [] full_path = ffmpeg_src_root \o <<"/private">>           -> "unreadable_dir"
      [] full_path = ffmpeg_src_root \o <<"/toolong">>           -> "name_too_long"
      [] OTHER                                                   -> "missing"

FsEntries(full_path) ==
    IF FsKind(full_path) = "dir" THEN <<"a.c", "locked.c">> ELSE <<>>

FsContent(full_path) == <<"int", " main;">>

\* os.path.isfile: TRUE only for an existing regular file, never raises
isfile(full_path) == FsKind(full_path) \in {"file", "unreadable_file"}

(***************************************************************************)
(* What a handler call comes to: it returns a value, raises an exception   *)
(* (status "raise"), or ends the interpreter (status "fatal"); together    *)
(* with what it did on the way: the argument vectors it gave               *)
(* subprocess.run, the processes that started, the filesystem calls, and   *)
(* the content of the list object it was given, after the call.            *)
(***************************************************************************)
NoValue == [kind |-> "none", returncode |-> 0, stdout |-> <<>>, stderr |-> <<>>,
            text |-> <<>>, names |-> <<>>, data |-> <<>>, format |-> ""]

Dict(rc, out, err) ==
    [NoValue EXCEPT !.kind = "dict", !.returncode = rc, !.stdout = out, !.stderr = err]
Str(t) == [NoValue EXCEPT !.kind = "str", !.text = t]
List(n) == [NoValue EXCEPT !.kind = "list", !.names = n]
Image(d, f) == [NoValue EXCEPT !.kind = "image", !.data = d, !.format = f]

Outcome(status, msg, value, runs, started, fs, argsAfter) ==
    [status |-> status, msg |-> msg, value |-> value, runCalls |-> runs,
     procs |-> started, fsOps |-> fs, args |-> argsAfter]

Return(value, runs, started, fs, argsAfter) ==
    Outcome("return", <<>>, value, runs, started, fs, argsAfter)

Raise(msg, runs, started, fs, argsAfter) ==
    Outcome("raise", msg, NoValue, runs, started, fs, argsAfter)

(***************************************************************************)
(* The process runner and the five tool handlers.  Each takes, besides its *)
(* own parameters, the environment e its process (if any) will meet.       *)
(***************************************************************************)
execute_ff(args, e) ==
    IF args = <<>>
    THEN \* subprocess.run([]) raises IndexError before any process exists
         Return(Dict(-1, <<>>, <<"list index out of range">>),
                <<args>>, <<>>, <<>>, args)
    ELSE IF ~e.spawned
    THEN Return(Dict(-1, <<>>, e.spawnError), <<args>>, <<>>, <<>>, args)
    ELSE IF ~Decodable(e.stdout) \/ ~Decodable(e.stderr)
    THEN \* text=True: the decoding error is an Exception like any other
         Return(Dict(-1, <<>>, <<"'utf-8' codec can't decode byte 0xff">>),
                <<args>>, <<args>>, <<>>, args)
    ELSE Return(Dict(e.returncode, Decode(e.stdout), Decode(e.stderr)),
                <<args>>, <<args>>, <<>>, args)

\* the fixed flags put in front of the caller's arguments
execute_ffmpeg_prepend(args, e) == execute_ff(<<"-v", "warning", "-y">> \o args, e)

\* args += [...] extends the list object the caller passed, in place
execute_ffmpeg(args, e) == execute_ff(args \o <<"-v", "warning", "-y">>, e)

execute_ffprobe(args, e) == execute_ff(args, e)

\* a path that is no regular file raises
get_ffmpeg_source_code_raises(path) ==
    IF path = <<>>
    THEN Raise(<<"Missing file path">>, <<>>, <<>>, <<>>, <<>>)
    ELSE LET full_path == ffmpeg_src_root \o path
         IN  IF ~isfile(full_path)
             THEN Raise(<<"Invalid path: ">> \o full_path,
                        <<>>, <<>>, << <<"isfile", full_path>> >>, <<>>)
             ELSE Return(Str(FsContent(full_path)),
                         <<>>, <<>>,
                         << <<"isfile", full_path>>, <<"open", full_path>> >>, <<>>)

get_ffmpeg_source_code(path) ==
    IF path = <<>>
    THEN Raise(<<"Missing file path">>, <<>>, <<>>, <<>>, <<>>)
    ELSE LET full_path == ffmpeg_src_root \o path
         IN  IF ~isfile(full_path)
             THEN Return(Str(<<"Invalid path: ">> \o full_path),
                         <<>>, <<>>, << <<"isfile", full_path>> >>, <<>>)
             ELSE IF FsKind(full_path) = "unreadable_file"
             THEN Return(Str(<<"Error reading file: ", "[Errno 13] Permission denied: ">>
                             \o full_path),
                         <<>>, <<>>,
                         << <<"isfile", full_path>>, <<"open", full_path>> >>, <<>>)
             ELSE Return(Str(FsContent(full_path)),
                         <<>>, <<>>,
                         << <<"isfile", full_path>>, <<"open", full_path>> >>, <<>>)

\* the empty path is not rejected and lists the root
ls_ffmpeg_source_code_unchecked(path) ==
    LET full_path == ffmpeg_src_root \o path
    IN  Return(List(FsEntries(full_path)),
               <<>>, <<>>, << <<"glob", full_path>> >>, <<>>)

\* Path.glob('*') yields nothing for a missing or unreadable directory; only
\* an OS error it does not swallow (a name too long) reaches the except clause
ls_ffmpeg_source_code(path) ==
    IF path = <<>>
    THEN Raise(<<"Missing file path">>, <<>>, <<>>, <<>>, <<>>)
    ELSE LET full_path == ffmpeg_src_root \o path
         IN  IF FsKind(full_path) = "name_too_long"
             THEN Raise(<<"Error reading file: ", "[Errno 36] File name too long: ">>
                        \o full_path,
                        <<>>, <<>>, << <<"glob", full_path>> >>, <<>>)
             ELSE Return(List(FsEntries(full_path)),
                         <<>>, <<>>, << <<"glob", full_path>> >>, <<>>)

\* the failure test joined with "and"
get_screenshot_and(file_path, timestamp, e) ==
    LET cmd == <<"ffmpeg", "-ss", timestamp, "-i", file_path, "-frames:v", "1",
                 "-f", "image2pipe", "-vcodec", "png", "-v", "error", "-y", "-">>
    IN  IF ~e.spawned
        THEN Raise(<<"Failed to extract screenshot: ">> \o e.spawnError,
                   <<cmd>>, <<>>, <<>>, <<>>)
        ELSE IF e.returncode # 0 /\ e.stdout = <<>>
        THEN Raise(<<"Failed to extract screenshot: ", "ffmpeg error: ">>
                   \o ReprBytes(e.stderr),
                   <<cmd>>, <<cmd>>, <<>>, <<>>)
        ELSE Return(Image(e.stdout, "png"), <<cmd>>, <<cmd>>, <<>>, <<>>)

\* a failed extraction ends the interpreter (sys.exit) instead of raising
get_screenshot_exits(file_path, timestamp, e) ==
    LET cmd == <<"ffmpeg", "-ss", timestamp, "-i", file_path, "-frames:v", "1",
                 "-f", "image2pipe", "-vcodec", "png", "-v", "error", "-y", "-">>
    IN  IF ~e.spawned \/ e.returncode # 0 \/ e.stdout = <<>>
        THEN Outcome("fatal", <<"Failed to extract screenshot">>, NoValue,
                     <<cmd>>, <<>>, <<>>, <<>>)
        ELSE Return(Image(e.stdout, "png"), <<cmd>>, <<cmd>>, <<>>, <<>>)

get_screenshot(file_path, timestamp, e) ==
    LET cmd == <<"ffmpeg", "-ss", timestamp, "-i", file_path, "-frames:v", "1",
                 "-f", "image2pipe", "-vcodec", "png", "-v", "error", "-y", "-">>
    IN  IF ~e.spawned
        THEN Raise(<<"Failed to extract screenshot: ">> \o e.spawnError,
                   <<cmd>>, <<>>, <<>>, <<>>)
        ELSE IF e.returncode # 0 \/ e.stdout = <<>>
        THEN Raise(<<"Failed to extract screenshot: ", "ffmpeg error: ">>
                   \o ReprBytes(e.stderr),
                   <<cmd>>, <<cmd>>, <<>>, <<>>)
        ELSE Return(Image(e.stdout, "png"), <<cmd>>, <<cmd>>, <<>>, <<>>)

(***************************************************************************)
(* The tool registry: the names the @mcp.tool decorators register, each    *)
(* with its handler.                                                       *)
(***************************************************************************)
\* the source reader registered under a second name as well
mcp_alias ==
    [n \in {"execute_ffmpeg", "execute_ffprobe", "get_ffmpeg_source_code",
            "ls_ffmpeg_source_code", "get_screenshot", "read_source_file"} |->
        IF n = "read_source_file" THEN "get_ffmpeg_source_code" ELSE n]

mcp ==
    [n \in {"execute_ffmpeg", "execute_ffprobe", "get_ffmpeg_source_code",
            "ls_ffmpeg_source_code", "get_screenshot"} |-> n]

(***************************************************************************)
(* Tool-call requests.                                                     *)
(***************************************************************************)
NoRequest == [tool |-> "", hasArgs |-> FALSE, args |-> <<>>, path |-> <<>>,
              file_path |-> "", timestamp |-> ""]

Requests ==
    { [NoRequest EXCEPT !.tool = t, !.hasArgs = TRUE, !.args = a] :
        t \in {"execute_ffmpeg", "execute_ffprobe"}, a \in ArgLists }
    \cup { [NoRequest EXCEPT !.tool = t, !.hasArgs = TRUE, !.path = p] :
        t \in {"get_ffmpeg_source_code", "ls_ffmpeg_source_code"} \cup UnregisteredNames,
        p \in PathArgs }
    \cup { [NoRequest EXCEPT !.tool = "get_screenshot", !.hasArgs = TRUE,
                             !.file_path = f, !.timestamp = ts] :
        f \in MediaFiles, ts \in Timestamps }
    \cup { [NoRequest EXCEPT !.tool = t] : t \in DOMAIN mcp \cup UnregisteredNames }

(***************************************************************************)
(* Result encoding and dispatch.                                           *)
(***************************************************************************)
encode(value) ==
    CASE value.kind = "dict"  -> [value EXCEPT !.kind = "StructuredContent"]
      [] value.kind = "list"  -> [value EXCEPT !.kind = "StructuredContent"]
      [] value.kind = "str"   -> [value EXCEPT !.kind = "TextContent"]
      [] value.kind = "image" -> [value EXCEPT !.kind = "ImageContent",
                                               !.data = b64encode(value.data)]

ErrorResult(kind, detail) ==
    [isError |-> TRUE, kind |-> kind, detail |-> detail, content |-> NoValue]

OkResult(value) ==
    [isError |-> FALSE, kind |-> "Ok", detail |-> <<>>, content |-> encode(value)]

Invoke(handler, req, e) ==
    CASE handler = "execute_ffmpeg"         -> execute_ffmpeg(req.args, e)
      [] handler = "execute_ffprobe"        -> execute_ffprobe(req.args, e)
      [] handler = "get_ffmpeg_source_code" -> get_ffmpeg_source_code(req.path)
      [] handler = "ls_ffmpeg_source_code"  -> ls_ffmpeg_source_code(req.path)
      [] handler = "get_screenshot"         -> get_screenshot(req.file_path, req.timestamp, e)

NotInvoked == Outcome("none", <<>>, NoValue, <<>>, <<>>, <<>>, <<>>)

\* what the session does with one request: the result it sends (if the
\* interpreter survives), the handlers it invoked, and the handler's outcome
dispatch(req, e) ==
    IF req.tool \notin DOMAIN mcp
    THEN [result |-> ErrorResult("UnknownTool", <<req.tool>>),
          invoked |-> <<>>, outcome |-> NotInvoked]
    ELSE IF ~req.hasArgs
    THEN [result |-> ErrorResult("InvalidArguments", <<"Field required">>),
          invoked |-> <<>>, outcome |-> NotInvoked]
    ELSE LET o == Invoke(mcp[req.tool], req, e)
         IN  [result  |-> CASE o.status = "return" -> OkResult(o.value)
                            [] o.status = "raise"  -> ErrorResult("HandlerFailed", o.msg)
                            [] OTHER               -> ErrorResult("Fatal", o.msg),
              invoked |-> <<mcp[req.tool]>>,
              outcome |-> o]

\* whether serving req calls subprocess.run with an executable to start
Spawns(req) ==
    LET o == dispatch(req, NoEnv).outcome
    IN  o.runCalls # <<>> /\ o.runCalls[1] # <<>>

(***************************************************************************)
(* The session: one request in flight at a time.                           *)
(***************************************************************************)
SessionInit ==
    /\ pc = "idle"
    /\ alive = TRUE
    /\ request = NoRequest
    /\ env = NoEnv
    /\ responses = <<>>
    /\ invoked = <<>>
    /\ runCalls = <<>>
    /\ procs = <<>>
    /\ fsOps = <<>>
    /\ failedBefore = FALSE

Init ==
    /\ SessionInit
    /\ callerOrig = <<>>
    /\ callerArgs = <<>>
    /\ directCalls = <<>>
    /\ directResult = NoValue

\* session.call_tool: a request reaches the server
Receive(req) ==
    /\ pc = "idle"
    /\ alive
    /\ pc' = "running"
    /\ request' = req
    /\ env' = NoEnv
    /\ responses' = <<>>
    /\ invoked' = <<>>
    /\ runCalls' = <<>>
    /\ procs' = <<>>
    /\ fsOps' = <<>>
    /\ failedBefore' = (failedBefore \/ (responses # <<>> /\ responses[1].isError))
    /\ UNCHANGED <<alive, callerVars>>

\* the request is dispatched, its handler runs to its end (its process, if
\* any, ends as e says) and the response is sent
Complete(e) ==
    /\ pc = "running"
    /\ env' = e
    /\ e \in (IF Spawns(request) THEN Envs ELSE {NoEnv})
    /\ LET d == dispatch(request, e)
       IN  /\ alive' = (d.outcome.status # "fatal")
           /\ responses' = IF d.outcome.status = "fatal" THEN <<>> ELSE <<d.result>>
           /\ invoked' = d.invoked
           /\ runCalls' = d.outcome.runCalls
           /\ procs' = d.outcome.procs
           /\ fsOps' = d.outcome.fsOps
    /\ pc' = "idle"
    /\ UNCHANGED <<request, failedBefore, callerVars>>

ReceiveAny == \E req \in Requests : Receive(req)

CompleteAny == pc = "running" /\ \E e \in Envs \cup {NoEnv} : Complete(e)

Next ==
    \/ ReceiveAny
    \/ CompleteAny

Spec == Init /\ [][Next]_vars

\* a handler blocks only in its wait for the process; once the process has
\* ended, the handler and the dispatcher run to their end
SpecLive == Spec /\ WF_vars(CompleteAny)

(***************************************************************************)
(* An in-process caller: it builds a list and calls the tool functions on  *)
(* it, as Python code importing the module does.                           *)
(***************************************************************************)
InitDirect ==
    /\ SessionInit
    /\ callerOrig \in ArgLists
    /\ callerArgs = callerOrig
    /\ directCalls = <<>>
    /\ directResult = NoValue

DirectCall(tool, o) ==
    /\ Len(directCalls) < MaxDirectCalls
    /\ callerArgs' = o.args
    /\ directCalls' = Append(directCalls, [tool |-> tool, argv |-> o.runCalls[1]])
    /\ directResult' = o.value
    /\ UNCHANGED <<callerOrig, sessionVars>>

DirectFfmpeg(e) == DirectCall("execute_ffmpeg", execute_ffmpeg(callerArgs, e))

DirectFfprobe(e) == DirectCall("execute_ffprobe", execute_ffprobe(callerArgs, e))

NextDirect ==
    \/ \E e \in Envs : DirectFfmpeg(e)
    \/ \E e \in Envs : DirectFfprobe(e)

SpecDirect == InitDirect /\ [][NextDirect]_vars

(***************************************************************************)
(* Properties.                                                             *)
(***************************************************************************)
\* a tool call has been served and its effects are on record
Done == pc = "idle" /\ request # NoRequest

Response == responses[1]

CommandTools == {"execute_ffmpeg", "execute_ffprobe"}
SourceTools == {"get_ffmpeg_source_code", "ls_ffmpeg_source_code"}
FixedFlags == <<"-v", "warning", "-y">>

\* C1: a call of a name that is none of the five registered tools gets the
\* error result UnknownTool carrying that name; no handler is invoked, no
\* process is spawned and the filesystem is not touched during it.
C1_UnknownTool ==
    (Done /\ request.tool \notin
        {"execute_ffmpeg", "execute_ffprobe", "get_ffmpeg_source_code",
         "ls_ffmpeg_source_code", "get_screenshot"})
    => /\ responses = << ErrorResult("UnknownTool", <<request.tool>>) >>
       /\ invoked = <<>>
       /\ runCalls = <<>>
       /\ procs = <<>>
       /\ fsOps = <<>>

C1_Witness ==
    /\ Done
    /\ request.tool = "read_source_file"
    /\ request.path = <<"/lib", "/a.c">>
    /\ Len(responses) = 1
    /\ Response.kind = "UnknownTool"

\* C2 (as claimed): execute_ffmpeg and execute_ffprobe, called with an empty
\* args list, return an InvalidArguments error and subprocess.run is not
\* even called.
C2_EmptyArgsRejected ==
    (Done /\ request.tool \in CommandTools /\ request.hasArgs /\ request.args = <<>>)
    => /\ Len(responses) = 1
       /\ Response.isError
       /\ Response.kind = "InvalidArguments"
       /\ runCalls = <<>>
       /\ procs = <<>>

\* C3 (as claimed): the process runner always returns a record; when the
\* process started, the record holds that process's exit code (zero or not)
\* and its stdout and stderr as text; when it did not start, the record is
\* returncode -1, empty stdout and a description of the failure in stderr.
\* (Seen through execute_ffprobe, which hands the runner its own arguments.)
C3_RunnerRecord ==
    (Done /\ request.tool = "execute_ffprobe" /\ request.hasArgs)
    => /\ Len(responses) = 1
       /\ ~Response.isError
       /\ Response.content.kind = "StructuredContent"
       /\ procs # <<>> =>
            /\ Response.content.returncode = env.returncode
            /\ Response.content.stdout = Decode(env.stdout)
            /\ Response.content.stderr = Decode(env.stderr)
       /\ procs = <<>> =>
            /\ Response.content.returncode = -1
            /\ Response.content.stdout = <<>>
            /\ Response.content.stderr # <<>>

\* C4 (as claimed): a source-browsing call with an empty path gets an
\* InvalidArguments error from validation: the handler is not run and the
\* filesystem is not accessed.
C4_RejectedAtValidation ==
    (Done /\ request.tool \in SourceTools /\ request.hasArgs /\ request.path = <<>>)
    => /\ Len(responses) = 1
       /\ Response.isError
       /\ Response.kind = "InvalidArguments"
       /\ invoked = <<>>
       /\ fsOps = <<>>

\* C4 (amended): a source-browsing call with an empty path gets an error
\* result that comes from the handler's own first check: the handler is
\* invoked and raises "Missing file path", reported as HandlerFailed; the
\* filesystem is not accessed and no process is run.
C4_EmptyPathRejected ==
    (Done /\ request.tool \in SourceTools /\ request.hasArgs /\ request.path = <<>>)
    => /\ responses = << ErrorResult("HandlerFailed", <<"Missing file path">>) >>
       /\ invoked = <<request.tool>>
       /\ fsOps = <<>>
       /\ runCalls = <<>>

C4_Witness ==
    /\ Done
    /\ request.tool = "ls_ffmpeg_source_code"
    /\ request.hasArgs
    /\ request.path = <<>>
    /\ invoked = <<"ls_ffmpeg_source_code">>

\* C5 (as claimed): ls_ffmpeg_source_code on a non-empty path whose directory
\* is missing or cannot be read gets a HandlerFailed error, never a
\* successful listing.
C5_UnreadableDirFails ==
    (Done /\ request.tool = "ls_ffmpeg_source_code" /\ request.hasArgs
          /\ request.path # <<>>
          /\ FsKind(ffmpeg_src_root \o request.path)
                \in {"missing", "unreadable_dir", "name_too_long"})
    => /\ Len(responses) = 1
       /\ Response.isError
       /\ Response.kind = "HandlerFailed"

\* C6: get_ffmpeg_source_code on a non-empty path that is no existing regular
\* file returns a plain string holding the full path (root + path), not an
\* error; a file that cannot be read gives a descriptive string too.
C6_InvalidPathIsText ==
    (Done /\ request.tool = "get_ffmpeg_source_code" /\ request.hasArgs
          /\ request.path # <<>>)
    => LET full_path == ffmpeg_src_root \o request.path
       IN  /\ FsKind(full_path) \notin {"file", "unreadable_file"} =>
                /\ Len(responses) = 1
                /\ ~Response.isError
                /\ Response.content.kind = "TextContent"
                /\ Contains(Response.content.text, full_path)
           /\ FsKind(full_path) = "unreadable_file" =>
                /\ Len(responses) = 1
                /\ ~Response.isError
                /\ Response.content.kind = "TextContent"
                /\ Head(Response.content.text) = "Error reading file: "

C6_Witness ==
    /\ Done
    /\ request.tool = "get_ffmpeg_source_code"
    /\ request.path = <<"/nope">>
    /\ Len(responses) = 1
    /\ Response.content.text = <<"Invalid path: ">> \o ffmpeg_src_root \o <<"/nope">>

\* C7: get_screenshot fails with HandlerFailed, carrying the captured stderr
\* (the spawn error when nothing ran), exactly when the spawn fails, the exit
\* code is not zero or stdout is empty; otherwise it returns an image tagged
\* "png" that the client's base64 decoding turns back into the raw stdout.
C7_Screenshot ==
    (Done /\ request.tool = "get_screenshot" /\ request.hasArgs)
    => /\ Len(responses) = 1
       /\ IF ~env.spawned \/ env.returncode # 0 \/ env.stdout = <<>>
          THEN /\ Response.isError
               /\ Response.kind = "HandlerFailed"
               /\ Contains(Response.detail,
                           IF env.spawned THEN ReprBytes(env.stderr)
                                          ELSE env.spawnError)
          ELSE /\ ~Response.isError
               /\ Response.content.kind = "ImageContent"
               /\ Response.content.format = "png"
               /\ b64decode(Response.content.data) = env.stdout

C7_Witness ==
    /\ Done
    /\ request.tool = "get_screenshot"
    /\ env.spawned
    /\ env.stdout = <<255, 13>>
    /\ env.stderr # <<>>
    /\ Len(responses) = 1
    /\ ~Response.isError

\* the calls in which a handler raises
HandlerRaises ==
    /\ request.hasArgs
    /\ \/ request.tool \in SourceTools /\ request.path = <<>>
       \/ /\ request.tool = "ls_ffmpeg_source_code"
          /\ FsKind(ffmpeg_src_root \o request.path) = "name_too_long"
       \/ /\ request.tool = "get_screenshot"
          /\ (~env.spawned \/ env.returncode # 0 \/ env.stdout = <<>>)

\* C8: the server never goes down; a call being served has no response yet
\* and, its process having ended, gets exactly one; a failure raised in a
\* handler comes back as a named error result; and after a failed call the
\* session takes every request again.
C8_SessionSurvives ==
    /\ [](/\ alive
          /\ pc = "running" => responses = <<>>
          /\ Done => Len(responses) = 1
          /\ (Done /\ HandlerRaises) =>
                /\ Response.isError
                /\ Response.kind = "HandlerFailed"
                /\ Response.detail # <<>>
          /\ pc = "idle" => \A req \in Requests : ENABLED Receive(req))
    /\ (pc = "running" ~> (pc = "idle" /\ Len(responses) = 1))

C8_Witness ==
    /\ Done
    /\ failedBefore
    /\ Len(responses) = 1
    /\ ~Response.isError
    /\ request.tool = "ls_ffmpeg_source_code"

\* C9: for non-empty args, execute_ffmpeg gives the runner exactly the
\* caller's args followed by "-v", "warning", "-y", once, and execute_ffprobe
\* exactly the caller's args; both return the runner's record as it is.
C9_ArgvAndResult ==
    (Done /\ request.tool \in CommandTools /\ request.hasArgs /\ request.args # <<>>)
    => /\ runCalls = << IF request.tool = "execute_ffmpeg"
                        THEN request.args \o FixedFlags
                        ELSE request.args >>
       /\ responses = << OkResult(execute_ff(runCalls[1], env).value) >>

C9_Witness ==
    /\ Done
    /\ request.tool = "execute_ffmpeg"
    /\ request.args = <<"ffmpeg", "-i", "in.mp4", "out.mp4">>
    /\ procs # <<>>
    /\ Len(responses) = 1
    /\ Response.content.returncode = 1
    /\ Response.content.stdout = <<"A", "\n">>

\* C10 (as claimed): after execute_ffmpeg(args) or execute_ffprobe(args)
\* returns, the caller's list holds what it held before, and two calls of
\* one tool with the same list hand the process the same argument vector.
C10_ArgsUntouched ==
    /\ callerArgs = callerOrig
    /\ \A i, j \in DOMAIN directCalls :
          directCalls[i].tool = directCalls[j].tool
          => directCalls[i].argv = directCalls[j].argv

====
